---- MODULE Spec2Model ----
(***************************************************************************)
(* A model of the JMdict streaming parser of src/src/main.rs: the document *)
(* scanner (get_entries), the entry parser (parse_entry), the element      *)
(* parsers (parse_k_ele, parse_r_ele, parse_sense), the entity decoder     *)
(* (parse_single_entity) and the cross-reference disambiguator             *)
(* (parse_cross_ref).                                                      *)
(*                                                                         *)
(* Strings are sequences of one-character strings.  "." stands for the     *)
(* middle dot U+30FB used as separator, "K" for a katakana letter          *)
(* (U+30A0..U+30FF, the separator apart), "k" for any other letter.        *)
(***************************************************************************)
EXTENDS Integers, Sequences, FiniteSets, TLC

VARIABLES
    root,       \* the function the run calls: get_entries, or a parser called directly as the tests do
    active,     \* the function whose loop reads the next token; "done" once root has returned
    eof,        \* the reader has reached end-of-stream: every later read returns Eof
    spin,       \* the parity of the number of read_event calls made after end-of-stream
    last,       \* the token returned by the latest read_event
    reader,     \* the function that made the latest read_event call
    warned,     \* the number of WARNING lines the latest step printed
    entries,    \* get_entries: entries
    ent,        \* parse_entry: id, ent_seq, kanji_entries, reading_entries, senses
    kele,       \* parse_k_ele: kanji, info, priority, elem
    rele,       \* parse_r_ele: kana, no_kanji, related_kanji, info, priority, elem
    sense,      \* parse_sense: the nine fields and elem
    result,     \* what root returned: Ok(value), Err or Panic; Running before
    arg,        \* the string argument of a direct call of a string function
    nstarts,    \* history: the number of Start "entry" tokens get_entries itself has read
    nelems,     \* history: the number of k_ele, r_ele and sense Start tokens parse_entry has read
    idpat,      \* history: how far the tokens parse_entry read in this record match
                \*   Start ent_seq, Text, End ent_seq, Start ent_seq, Text, End ent_seq
    glosslangs, \* history: the xml:lang values of the gloss Start tokens of the sense being parsed
    open,       \* history: the elements opened and not yet closed inside the sense being parsed
    shape       \* history: the nesting of the tokens of the sense being parsed: "flat" while
                \*   every element was opened and closed with no other element open,
                \*   "nested" while every End token closed the innermost open element,
                \*   "broken" from the first End token that did not, or Eof or Err

vars == <<root, active, eof, spin, last, reader, warned, entries, ent, kele, rele, sense,
          result, arg, nstarts, nelems, idpat, glosslangs, open, shape>>

----------------------------------------------------------------------------
(* Bounds of the model.                                                    *)

\* the longest string handed to parse_cross_ref in a direct call
MaxXrefLen == 5

\* the most Start "entry" tokens of a document at the level of get_entries
MaxEntries == 2

\* the most k_ele, r_ele and sense elements of a document
MaxElems == 2

\* the most items an element parser stores in its lists, all lists together
MaxItems == 2

\* the deepest nesting of elements inside a sense element
MaxDepth == 2

\* the longest token handed to parse_single_entity in a direct call
MaxEntityLen == 5

----------------------------------------------------------------------------
(* Option and Result values.                                               *)

None == <<>>

Some(x) == <<x>>

Ok(v) == [st |-> "Ok", v |-> v]

\* an Error; offset tells whether the message holds reader.buffer_position()
Err(msg, offset) == [st |-> "Err", msg |-> msg, offset |-> offset]

\* a panic (unwrap on Err, assert!): the process aborts, nothing is returned
Panic(msg) == [st |-> "Panic", msg |-> msg]

Running == [st |-> "Running"]

----------------------------------------------------------------------------
(* Strings.                                                                *)

Sep == "."

Digits == {"0", "1", "2", "3", "4", "5", "6", "7", "8", "9"}

DigitVal(c) ==
    CASE c = "0" -> 0 [] c = "1" -> 1 [] c = "2" -> 2 [] c = "3" -> 3 [] c = "4" -> 4
      [] c = "5" -> 5 [] c = "6" -> 6 [] c = "7" -> 7 [] c = "8" -> 8 [] c = "9" -> 9

\* the characters in '\u{30a0}'..='\u{30ff}'; the middle dot U+30FB is one of them
KatakanaChars == {"K", Sep}

\* u8::MAX and u32::MAX as decimal numerals (TLC's integers end at 2^31 - 1)
U8MaxNumeral == <<"2", "5", "5">>

U32MaxNumeral == <<"4", "2", "9", "4", "9", "6", "7", "2", "9", "5">>

RECURSIVE StripZeros(_)
StripZeros(d) == IF Len(d) > 1 /\ Head(d) = "0" THEN StripZeros(Tail(d)) ELSE d

\* a <= b for two numerals of the same length
RECURSIVE NumeralLeq(_, _)
NumeralLeq(a, b) ==
    IF a = <<>> THEN TRUE
    ELSE IF DigitVal(Head(a)) # DigitVal(Head(b)) THEN DigitVal(Head(a)) < DigitVal(Head(b))
    ELSE NumeralLeq(Tail(a), Tail(b))

\* no checked_mul or checked_add overflows while the digits d are accumulated
FitsIn(d, max) ==
    LET n == StripZeros(d)
    IN  Len(n) < Len(max) \/ (Len(n) = Len(max) /\ NumeralLeq(n, max))

RECURSIVE DigitsValue(_, _)
DigitsValue(d, acc) ==
    IF d = <<>> THEN acc ELSE DigitsValue(Tail(d), acc * 10 + DigitVal(Head(d)))

\* core::num from_str_radix for an unsigned type with maximum max, radix 10:
\* an optional leading "+", then one or more digits, accumulated with
\* checked_mul and checked_add; -1 stands for Err
ParseUnsigned(s, max) ==
    LET d == IF s # <<>> /\ Head(s) = "+" THEN Tail(s) ELSE s
    IN  IF d = <<>> THEN -1
        ELSE IF \E i \in 1..Len(d) : d[i] \notin Digits THEN -1
        ELSE IF ~FitsIn(d, max) THEN -1
        ELSE DigitsValue(d, 0)

\* str::split: the parts between the separators, at least one part
RECURSIVE SplitFrom(_, _, _)
SplitFrom(s, sep, cur) ==
    IF s = <<>> THEN <<cur>>
    ELSE IF Head(s) = sep THEN <<cur>> \o SplitFrom(Tail(s), sep, <<>>)
    ELSE SplitFrom(Tail(s), sep, Append(cur, Head(s)))

Split(s, sep) == SplitFrom(s, sep, <<>>)

\* [&str]::join
RECURSIVE Join(_, _)
Join(parts, sep) ==
    IF parts = <<>> THEN <<>>
    ELSE IF Len(parts) = 1 THEN parts[1]
    ELSE parts[1] \o <<sep>> \o Join(Tail(parts), sep)

is_katakana(word) == \A i \in 1..Len(word) : word[i] \in KatakanaChars

----------------------------------------------------------------------------
(* parse_cross_ref                                                         *)

CrossReference(k, r, s) == [kanji_or_reading |-> k, reading |-> r, sense_index |-> s]

\* "If the last part is an integer, assign the sense."
XrefSenseIndex(parts) ==
    LET n == ParseUnsigned(parts[Len(parts)], U8MaxNumeral)
    IN  IF n >= 0 THEN Some(n) ELSE None

XrefNonSenseParts(parts) ==
    IF XrefSenseIndex(parts) # None THEN Len(parts) - 1 ELSE Len(parts)

\* a variant for the check of C10: every part joined, the sense index too
XrefKatakanaWordAll(parts) == Join(parts, Sep)

\* the katakana arm of the if: the word is the non-sense parts joined again
XrefKatakanaWord(parts) == Join(SubSeq(parts, 1, XrefNonSenseParts(parts)), Sep)

\* a variant for the check of C9: three non-sense parts let through
XrefFieldsThree(parts) ==
    IF XrefNonSenseParts(parts) > 3
    THEN Err("Error parsing cross-reference", TRUE)
    ELSE Ok(CrossReference(parts[1],
                           IF XrefNonSenseParts(parts) >= 2 THEN Some(parts[2]) ELSE None,
                           XrefSenseIndex(parts)))

\* the else arm: kanji / reading fields
XrefFields(parts) ==
    IF XrefNonSenseParts(parts) > 2
    THEN Err("Error parsing cross-reference", TRUE)
    ELSE Ok(CrossReference(parts[1],
                           IF XrefNonSenseParts(parts) = 2 THEN Some(parts[2]) ELSE None,
                           XrefSenseIndex(parts)))

\* a variant for the check of C11: no early return for an input of one part
XrefNoSinglePart(input) ==
    IF input = <<>> THEN Err("Empty cross-reference", TRUE)
    ELSE LET parts == Split(input, Sep)
         IN  IF is_katakana(parts[1])
             THEN Ok(CrossReference(XrefKatakanaWord(parts), None, XrefSenseIndex(parts)))
             ELSE XrefFields(parts)

parse_cross_ref(input) ==
    IF input = <<>> THEN Err("Empty cross-reference", TRUE)
    ELSE LET parts == Split(input, Sep)
         IN  IF Len(parts) = 1
             THEN Ok(CrossReference(input, None, None))
             ELSE IF is_katakana(parts[1])
                  THEN Ok(CrossReference(XrefKatakanaWord(parts), None, XrefSenseIndex(parts)))
                  ELSE XrefFields(parts)

----------------------------------------------------------------------------
(* parse_single_entity and BytesText::unescape_and_decode                  *)

Contains(s, c) == \E i \in 1..Len(s) : s[i] = c

\* [u8]::starts_with and ends_with for a needle of one byte
starts_with(raw, c) == raw # <<>> /\ Head(raw) = c

ends_with(raw, c) == raw # <<>> /\ raw[Len(raw)] = c

\* &raw[from..to], the bounds counted from 0 as in the code: the index
\* expression panics unless 0 <= from <= to <= raw.len()
InRange(raw, from, to) == 0 <= from /\ from <= to /\ to <= Len(raw)

Slice(raw, from, to) == SubSeq(raw, from + 1, to)

\* a variant for the check of C12: the test of the closing ";" left out
EntityNoEndCheck(raw) ==
    IF ~starts_with(raw, "&") THEN Err("Error parsing entity", TRUE)
    ELSE IF ~InRange(raw, 1, Len(raw)) THEN Panic("slice index")
    ELSE IF Contains(Slice(raw, 1, Len(raw)), "&") THEN Err("Error parsing entity", TRUE)
    ELSE IF ~InRange(raw, 0, Len(raw) - 1) THEN Panic("slice index")
    ELSE IF Contains(Slice(raw, 0, Len(raw) - 1), ";") THEN Err("Error parsing entity", TRUE)
    ELSE IF ~InRange(raw, 1, Len(raw) - 1) THEN Panic("slice index")
    ELSE Ok(Slice(raw, 1, Len(raw) - 1))

\* Take a string like "&ent;" and return "ent".  The four tests of the if
\* are evaluated from left to right, a later one only when the earlier
\* ones are false.
parse_single_entity(raw) ==
    IF ~starts_with(raw, "&") THEN Err("Error parsing entity", TRUE)
    ELSE IF ~ends_with(raw, ";") THEN Err("Error parsing entity", TRUE)
    ELSE IF ~InRange(raw, 1, Len(raw)) THEN Panic("slice index")
    ELSE IF Contains(Slice(raw, 1, Len(raw)), "&") THEN Err("Error parsing entity", TRUE)
    ELSE IF ~InRange(raw, 0, Len(raw) - 1) THEN Panic("slice index")
    ELSE IF Contains(Slice(raw, 0, Len(raw) - 1), ";") THEN Err("Error parsing entity", TRUE)
    ELSE IF ~InRange(raw, 1, Len(raw) - 1) THEN Panic("slice index")
    ELSE Ok(Slice(raw, 1, Len(raw) - 1))

\* the character of a numeric character reference; 32 is the space
CodeChar(n) == IF n = 32 THEN " " ELSE IF n = 38 THEN "&" ELSE "k"

\* the replacement of the entity body between "&" and ";", <<>> when unknown
EntityValue(body) ==
    IF body = <<"l", "t">> THEN <<"<">>
    ELSE IF body = <<"g", "t">> THEN <<">">>
    ELSE IF body = <<"a", "m", "p">> THEN <<"&">>
    ELSE IF body # <<>> /\ Head(body) = "#" /\ Tail(body) # <<>>
              /\ (\A i \in 2..Len(body) : body[i] \in Digits)
              /\ FitsIn(Tail(body), U32MaxNumeral)
         THEN <<CodeChar(DigitsValue(Tail(body), 0))>>
    ELSE <<>>

\* the index of the first c in s at or after i, 0 when there is none
RECURSIVE IndexFrom(_, _, _)
IndexFrom(s, c, i) ==
    IF i > Len(s) THEN 0 ELSE IF s[i] = c THEN i ELSE IndexFrom(s, c, i + 1)

\* quick_xml unescape: every "&" opens an entity closed by the next ";"; an
\* unterminated or unrecognized entity is an error
RECURSIVE Unescape(_)
Unescape(raw) ==
    LET a == IndexFrom(raw, "&", 1)
    IN  IF a = 0 THEN Ok(raw)
        ELSE LET e == IndexFrom(raw, ";", a + 1)
             IN  IF e = 0 THEN Err("unescape", FALSE)
                 ELSE LET val  == EntityValue(SubSeq(raw, a + 1, e - 1))
                          rest == Unescape(SubSeq(raw, e + 1, Len(raw)))
                      IN  IF val = <<>> \/ rest.st # "Ok" THEN Err("unescape", FALSE)
                          ELSE Ok(SubSeq(raw, 1, a - 1) \o val \o rest.v)

unescape_and_decode(raw) == Unescape(raw)

\* str::trim
IsSpace(c) == c = " "

RECURSIVE TrimStart(_)
TrimStart(s) == IF s # <<>> /\ IsSpace(Head(s)) THEN TrimStart(Tail(s)) ELSE s

RECURSIVE TrimEnd(_)
TrimEnd(s) ==
    IF s # <<>> /\ IsSpace(s[Len(s)]) THEN TrimEnd(SubSeq(s, 1, Len(s) - 1)) ELSE s

Trim(s) == TrimEnd(TrimStart(s))

----------------------------------------------------------------------------
(* Tokens: the events of quick_xml's Reader::read_event.                   *)

\* lang: the value of the xml:lang attribute, None without one
StartTok(name, lang) == [k |-> "Start", name |-> name, lang |-> lang, text |-> <<>>]

EndTok(name) == [k |-> "End", name |-> name, lang |-> None, text |-> <<>>]

\* text: the raw (escaped) bytes of the text
TextTok(raw) == [k |-> "Text", name |-> "", lang |-> None, text |-> raw]

EofTok == [k |-> "Eof", name |-> "", lang |-> None, text |-> <<>>]

\* read_event returned Err
ErrTok == [k |-> "Err", name |-> "", lang |-> None, text |-> <<>>]

\* Comment, CData, Decl, PI, DocType: the events the parsers match with _
OtherTok == [k |-> "Other", name |-> "", lang |-> None, text |-> <<>>]

NoTok == [k |-> "None", name |-> "", lang |-> None, text |-> <<>>]

\* an xml:lang value that is not UTF-8
BadUtf8 == "\\xff"

\* outcomes of one iteration of a parser's loop
Cont(f, w) == [t |-> "Cont", f |-> f, warn |-> w]

Call(fn, f) == [t |-> "Call", fn |-> fn, f |-> f]

Ret(r) == [t |-> "Ret", r |-> r]

----------------------------------------------------------------------------
(* parse_sense                                                             *)

SenseInit ==
    [only_kanji |-> <<>>, only_readings |-> <<>>, part_of_speech |-> <<>>,
     cross_refs |-> <<>>, antonyms |-> <<>>, field |-> <<>>, misc |-> <<>>,
     glosses |-> <<>>, lang |-> None, elem |-> "None"]

\* the Sense value returned: the frame without the cursor
SenseValue(f) ==
    [only_kanji |-> f.only_kanji, only_readings |-> f.only_readings,
     part_of_speech |-> f.part_of_speech, cross_refs |-> f.cross_refs,
     antonyms |-> f.antonyms, field |-> f.field, misc |-> f.misc,
     glosses |-> f.glosses, lang |-> f.lang]

\* a variant for the check of C7: the gloss arm recording the latest xml:lang
SenseOnGlossLatest(f, tok) ==
    IF tok.lang = None THEN Cont([f EXCEPT !.elem = "Gloss"], 0)
    ELSE IF tok.lang[1] = BadUtf8 THEN Ret(Err("invalid utf-8", FALSE))
    ELSE Cont([f EXCEPT !.elem = "Gloss", !.lang = Some(tok.lang[1])], 0)

\* the gloss arm: set the cursor, then look at the xml:lang attribute
SenseOnGloss(f, tok) ==
    IF tok.lang = None THEN Cont([f EXCEPT !.elem = "Gloss"], 0)
    ELSE IF tok.lang[1] = BadUtf8 THEN Ret(Err("invalid utf-8", FALSE))
    ELSE IF f.lang # None
         THEN IF f.lang[1] = tok.lang[1]
              THEN Cont([f EXCEPT !.elem = "Gloss"], 0)
              ELSE Ret(Err("All glosses within a sense should use the same language", FALSE))
         ELSE Cont([f EXCEPT !.elem = "Gloss", !.lang = Some(tok.lang[1])], 0)

SenseOnStart(f, tok) ==
    CASE tok.name = "stagk" -> Cont([f EXCEPT !.elem = "SenseTagKanji"], 0)
      [] tok.name = "stagr" -> Cont([f EXCEPT !.elem = "SenseTagReading"], 0)
      [] tok.name = "pos"   -> Cont([f EXCEPT !.elem = "PartOfSpeech"], 0)
      [] tok.name = "xref"  -> Cont([f EXCEPT !.elem = "CrossReference"], 0)
      [] tok.name = "ant"   -> Cont([f EXCEPT !.elem = "Antonym"], 0)
      [] tok.name = "field" -> Cont([f EXCEPT !.elem = "Field"], 0)
      [] tok.name = "misc"  -> Cont([f EXCEPT !.elem = "Misc"], 0)
      [] tok.name = "gloss" -> SenseOnGloss(f, tok)
      [] OTHER              -> Cont(f, 0)

SenseOnEnd(f, tok) ==
    IF tok.name = "sense" THEN Ret(Ok(SenseValue(f)))
    ELSE Cont([f EXCEPT !.elem = "None"], 0)

\* a variant for the check of C8: the text put in front of the list
SensePushTextFront(f, fld, raw) ==
    LET u == unescape_and_decode(raw)
    IN  IF u.st # "Ok" THEN Ret(Panic("unwrap"))
        ELSE Cont([f EXCEPT ![fld] = <<u.v>> \o @], 0)

\* push(e.unescape_and_decode(&reader).unwrap()) onto the list named fld
SensePushText(f, fld, raw) ==
    LET u == unescape_and_decode(raw)
    IN  IF u.st # "Ok" THEN Ret(Panic("unwrap"))
        ELSE Cont([f EXCEPT ![fld] = Append(@, u.v)], 0)

\* push(parse_single_entity(e.escaped(), reader)?) onto the list named fld
SensePushEntity(f, fld, raw) ==
    LET r == parse_single_entity(raw)
    IN  IF r.st # "Ok" THEN Ret(r) ELSE Cont([f EXCEPT ![fld] = Append(@, r.v)], 0)

\* push(parse_cross_ref(&e.unescape_and_decode(&reader).unwrap(), ..)?)
SensePushXref(f, fld, raw) ==
    LET u == unescape_and_decode(raw)
    IN  IF u.st # "Ok" THEN Ret(Panic("unwrap"))
        ELSE LET r == parse_cross_ref(u.v)
             IN  IF r.st # "Ok" THEN Ret(r)
                 ELSE Cont([f EXCEPT ![fld] = Append(@, r.v)], 0)

SenseOnText(f, tok) ==
    CASE f.elem = "SenseTagKanji"   -> SensePushText(f, "only_kanji", tok.text)
      [] f.elem = "SenseTagReading" -> SensePushText(f, "only_readings", tok.text)
      [] f.elem = "PartOfSpeech"    -> SensePushEntity(f, "part_of_speech", tok.text)
      [] f.elem = "CrossReference"  -> SensePushXref(f, "cross_refs", tok.text)
      [] f.elem = "Antonym"         -> SensePushXref(f, "antonyms", tok.text)
      [] f.elem = "Field"           -> SensePushEntity(f, "field", tok.text)
      [] f.elem = "Misc"            -> SensePushEntity(f, "misc", tok.text)
      [] f.elem = "Gloss"           -> SensePushText(f, "glosses", tok.text)
      [] OTHER                      -> Cont(f, 0)

\* one iteration of the loop of parse_sense on the event tok
SenseIter(f, tok) ==
    CASE tok.k = "Start" -> SenseOnStart(f, tok)
      [] tok.k = "End"   -> SenseOnEnd(f, tok)
      [] tok.k = "Text"  -> SenseOnText(f, tok)
      [] tok.k = "Err"   -> Ret(Err("Error parsing entry", TRUE))
      [] OTHER           -> Cont(f, 0)

----------------------------------------------------------------------------
(* parse_k_ele                                                             *)

KEleInit == [kanji |-> <<>>, info |-> <<>>, priority |-> <<>>, elem |-> "None"]

KanjiEntry(f) == [kanji |-> f.kanji, info |-> f.info, priority |-> f.priority]

KEleOnStart(f, tok) ==
    CASE tok.name = "keb"    -> Cont([f EXCEPT !.elem = "Keb"], 0)
      [] tok.name = "ke_inf" -> Cont([f EXCEPT !.elem = "KeInf"], 0)
      [] tok.name = "ke_pri" -> Cont([f EXCEPT !.elem = "KePri"], 0)
      [] OTHER               -> Cont(f, 1)

\* the code after the loop: the assert!, the ensure!, the KanjiEntry
KEleFinish(f) ==
    IF Trim(f.kanji) # f.kanji
    THEN Ret(Panic("Kanji keys should not have leading or trailing whitespace"))
    ELSE IF f.kanji = <<>> THEN Ret(Err("Kanji key is empty", TRUE))
    ELSE Ret(Ok(KanjiEntry(f)))

\* a variant for the check of C16: the cursor kept over an End token
KEleOnEndKeep(f, tok) ==
    IF tok.name = "k_ele" THEN KEleFinish(f) ELSE Cont(f, 0)

KEleOnEnd(f, tok) ==
    IF tok.name = "k_ele" THEN KEleFinish(f) ELSE Cont([f EXCEPT !.elem = "None"], 0)

KEleOnText(f, tok) ==
    LET u == unescape_and_decode(tok.text)
        e == parse_single_entity(tok.text)
    IN  CASE f.elem = "Keb"   -> IF u.st # "Ok" THEN Ret(u)
                                 ELSE Cont([f EXCEPT !.kanji = u.v], 0)
          [] f.elem = "KeInf" -> IF e.st # "Ok" THEN Ret(e)
                                 ELSE Cont([f EXCEPT !.info = Append(@, e.v)], 0)
          [] f.elem = "KePri" -> IF u.st # "Ok" THEN Ret(u)
                                 ELSE Cont([f EXCEPT !.priority = Append(@, u.v)], 0)
          [] OTHER            -> Cont(f, 1)

KEleIter(f, tok) ==
    CASE tok.k = "Start" -> KEleOnStart(f, tok)
      [] tok.k = "End"   -> KEleOnEnd(f, tok)
      [] tok.k = "Text"  -> KEleOnText(f, tok)
      [] tok.k = "Err"   -> Ret(Err("Error parsing entry", TRUE))
      [] OTHER           -> Cont(f, 0)

----------------------------------------------------------------------------
(* parse_r_ele                                                             *)

REleInit ==
    [kana |-> <<>>, no_kanji |-> FALSE, related_kanji |-> <<>>, info |-> <<>>,
     priority |-> <<>>, elem |-> "None"]

ReadingEntry(f) ==
    [kana |-> f.kana, no_kanji |-> f.no_kanji, related_kanji |-> f.related_kanji,
     info |-> f.info, priority |-> f.priority]

\* a variant for the check of C15: an unknown tag closing the open field
REleOnStartReset(f, tok) ==
    CASE tok.name = "reb"        -> Cont([f EXCEPT !.elem = "Reb"], 0)
      [] tok.name = "re_nokanji" -> Cont([f EXCEPT !.no_kanji = TRUE], 0)
      [] tok.name = "re_restr"   -> Cont([f EXCEPT !.elem = "ReRestr"], 0)
      [] tok.name = "re_inf"     -> Cont([f EXCEPT !.elem = "ReInf"], 0)
      [] tok.name = "re_pri"     -> Cont([f EXCEPT !.elem = "RePri"], 0)
      [] OTHER                   -> Cont([f EXCEPT !.elem = "None"], 1)

REleOnStart(f, tok) ==
    CASE tok.name = "reb"        -> Cont([f EXCEPT !.elem = "Reb"], 0)
      [] tok.name = "re_nokanji" -> Cont([f EXCEPT !.no_kanji = TRUE], 0)
      [] tok.name = "re_restr"   -> Cont([f EXCEPT !.elem = "ReRestr"], 0)
      [] tok.name = "re_inf"     -> Cont([f EXCEPT !.elem = "ReInf"], 0)
      [] tok.name = "re_pri"     -> Cont([f EXCEPT !.elem = "RePri"], 0)
      [] OTHER                   -> Cont(f, 1)

REleFinish(f) ==
    IF Trim(f.kana) # f.kana
    THEN Ret(Panic("Kana keys should not have leading or trailing whitespace"))
    ELSE IF f.kana = <<>> THEN Ret(Err("Kana key is empty", TRUE))
    ELSE Ret(Ok(ReadingEntry(f)))

REleOnEnd(f, tok) ==
    IF tok.name = "r_ele" THEN REleFinish(f) ELSE Cont([f EXCEPT !.elem = "None"], 0)

REleOnText(f, tok) ==
    LET u == unescape_and_decode(tok.text)
        e == parse_single_entity(tok.text)
    IN  CASE f.elem = "Reb"     -> IF u.st # "Ok" THEN Ret(Panic("unwrap"))
                                   ELSE Cont([f EXCEPT !.kana = u.v], 0)
          [] f.elem = "ReRestr" -> IF u.st # "Ok" THEN Ret(Panic("unwrap"))
                                   ELSE Cont([f EXCEPT !.related_kanji = Append(@, u.v)], 0)
          [] f.elem = "ReInf"   -> IF e.st # "Ok" THEN Ret(e)
                                   ELSE Cont([f EXCEPT !.info = Append(@, e.v)], 0)
          [] f.elem = "RePri"   -> IF u.st # "Ok" THEN Ret(Panic("unwrap"))
                                   ELSE Cont([f EXCEPT !.priority = Append(@, u.v)], 0)
          [] OTHER              -> Cont(f, 1)

REleIter(f, tok) ==
    CASE tok.k = "Start" -> REleOnStart(f, tok)
      [] tok.k = "End"   -> REleOnEnd(f, tok)
      [] tok.k = "Text"  -> REleOnText(f, tok)
      [] tok.k = "Err"   -> Ret(Err("Error parsing entry", TRUE))
      [] OTHER           -> Cont(f, 0)

----------------------------------------------------------------------------
(* parse_entry                                                             *)

EntInit ==
    [id |-> 0, ent_seq |-> FALSE, kanji_entries |-> <<>>, reading_entries |-> <<>>,
     senses |-> <<>>]

Entry(f) ==
    [id |-> f.id, kanji_entries |-> f.kanji_entries,
     reading_entries |-> f.reading_entries, senses |-> f.senses]

EntryOnStart(f, tok) ==
    CASE tok.name = "ent_seq" -> IF f.ent_seq THEN Ret(Err("Nested ent_seq", TRUE))
                                 ELSE Cont([f EXCEPT !.ent_seq = TRUE], 0)
      [] tok.name = "k_ele"   -> Call("parse_k_ele", f)
      [] tok.name = "r_ele"   -> Call("parse_r_ele", f)
      [] tok.name = "sense"   -> Call("parse_sense", f)
      [] OTHER                -> Cont(f, 1)

\* a variant for the check of C1: parse_entry without the ensure! on reading_entries
EntryFinishNoReadings(f) ==
    IF f.id = 0 THEN Ret(Err("ID not found", TRUE)) ELSE Ret(Ok(Entry(f)))

\* the code after the loop: the two ensure!s, the Entry
EntryFinish(f) ==
    IF f.id = 0 THEN Ret(Err("ID not found", TRUE))
    ELSE IF f.reading_entries = <<>> THEN Ret(Err("No reading entries found", TRUE))
    ELSE Ret(Ok(Entry(f)))

\* a variant for the check of C5: parse_entry clearing the flag on every End ent_seq
EntryOnEndLenient(f, tok) ==
    CASE tok.name = "entry"   -> EntryFinish(f)
      [] tok.name = "ent_seq" -> Cont([f EXCEPT !.ent_seq = FALSE], 0)
      [] OTHER                -> Cont(f, 0)

EntryOnEnd(f, tok) ==
    CASE tok.name = "entry"   -> EntryFinish(f)
      [] tok.name = "ent_seq" -> IF ~f.ent_seq THEN Ret(Err("Mismatched ent_seq tags", TRUE))
                                 ELSE Cont([f EXCEPT !.ent_seq = FALSE], 0)
      [] OTHER                -> Cont(f, 0)

\* a variant for the check of C17: the text parsed whatever the flag
EntryOnTextAlways(f, tok) ==
    LET u == unescape_and_decode(tok.text)
    IN  IF u.st # "Ok" THEN Ret(u)
        ELSE IF ParseUnsigned(u.v, U32MaxNumeral) < 0
             THEN Ret(Err("Failed to parse ent_seq as int", FALSE))
             ELSE Cont([f EXCEPT !.id = ParseUnsigned(u.v, U32MaxNumeral)], 0)

EntryOnText(f, tok) ==
    IF ~f.ent_seq THEN Cont(f, 0)
    ELSE LET u == unescape_and_decode(tok.text)
         IN  IF u.st # "Ok" THEN Ret(u)
             ELSE IF ParseUnsigned(u.v, U32MaxNumeral) < 0
                  THEN Ret(Err("Failed to parse ent_seq as int", FALSE))
                  ELSE Cont([f EXCEPT !.id = ParseUnsigned(u.v, U32MaxNumeral)], 0)

EntryIter(f, tok) ==
    CASE tok.k = "Start" -> EntryOnStart(f, tok)
      [] tok.k = "End"   -> EntryOnEnd(f, tok)
      [] tok.k = "Text"  -> EntryOnText(f, tok)
      [] tok.k = "Err"   -> Ret(Err("Error parsing entry", TRUE))
      [] OTHER           -> Cont(f, 0)

\* a variant for the check of C3: parse_entry skipping an element that failed
EntryOnChildSkip(f, fn, r) ==
    IF r.st # "Ok" THEN Cont(f, 0)
    ELSE CASE fn = "parse_k_ele" -> Cont([f EXCEPT !.kanji_entries = Append(@, r.v)], 0)
           [] fn = "parse_r_ele" -> Cont([f EXCEPT !.reading_entries = Append(@, r.v)], 0)
           [] fn = "parse_sense" -> Cont([f EXCEPT !.senses = Append(@, r.v)], 0)

\* kanji_entries.push(parse_k_ele(reader)?) and its two siblings: what
\* parse_entry does with the result r of the element parser fn
EntryOnChild(f, fn, r) ==
    IF r.st # "Ok" THEN Ret(r)
    ELSE CASE fn = "parse_k_ele" -> Cont([f EXCEPT !.kanji_entries = Append(@, r.v)], 0)
           [] fn = "parse_r_ele" -> Cont([f EXCEPT !.reading_entries = Append(@, r.v)], 0)
           [] fn = "parse_sense" -> Cont([f EXCEPT !.senses = Append(@, r.v)], 0)

----------------------------------------------------------------------------
(* get_entries                                                             *)

ScanOnStart(es, tok) ==
    IF tok.name = "entry" THEN Call("parse_entry", es) ELSE Cont(es, 0)

ScanIter(es, tok) ==
    CASE tok.k = "Start" -> ScanOnStart(es, tok)
      [] tok.k = "Eof"   -> Ret(Ok(es))
      [] tok.k = "Err"   -> Ret(Err("Error parsing entry", TRUE))
      [] OTHER           -> Cont(es, 0)

\* a variant for the check of C2: get_entries putting the new Record in front
ScanOnEntryFront(es, r) ==
    IF r.st # "Ok" THEN Ret(r) ELSE Cont(<<r.v>> \o es, 0)

\* entries.push(parse_entry(&mut reader)?)
ScanOnEntry(es, r) ==
    IF r.st # "Ok" THEN Ret(r) ELSE Cont(Append(es, r.v), 0)

----------------------------------------------------------------------------
(* Calls and returns.  A control record holds what a return changes: the   *)
(* active function, the caller's locals and the result of the run.         *)

Ctl(a, e, es, r) == [active |-> a, ent |-> e, entries |-> es, result |-> r]

\* root returns r: the run is over and the locals are dropped
Finish(r) == Ctl("done", EntInit, <<>>, r)

\* parse_entry returns r, e and es being the locals of the frames below
AfterEntry(r, es) ==
    IF root = "parse_entry" \/ r.st = "Panic" THEN Finish(r)
    ELSE LET o == ScanOnEntry(es, r)
         IN  IF o.t = "Cont" THEN Ctl("get_entries", EntInit, o.f, Running)
             ELSE Finish(o.r)

\* the element parser fn returns r
AfterChild(fn, r, e, es) ==
    IF root = fn \/ r.st = "Panic" THEN Finish(r)
    ELSE LET o == EntryOnChild(e, fn, r)
         IN  IF o.t = "Cont" THEN Ctl("parse_entry", o.f, es, Running)
             ELSE AfterEntry(o.r, es)

Apply(c) ==
    /\ active' = c.active
    /\ ent' = c.ent
    /\ entries' = c.entries
    /\ result' = c.result

----------------------------------------------------------------------------
(* The token alphabets the runs draw from.  The reader is built with       *)
(* trim_text(true): a Text event is never empty and has no leading or      *)
(* trailing white space.                                                   *)

Str(c) == <<c>>

EntityText == <<"&", "n", ";">>

DocTokens ==
    {StartTok(n, None) : n \in {"entry", "ent_seq", "k_ele", "r_ele", "sense",
                                "keb", "reb", "pos", "xref", "JMdict"}}
    \cup {EndTok(n) : n \in {"entry", "ent_seq", "k_ele", "r_ele", "sense", "keb"}}
    \cup {TextTok(Str("1")), TextTok(<<"k", ".", ".">>)}
    \cup {EofTok, ErrTok, OtherTok}

----------------------------------------------------------------------------
(* The run.                                                                *)

\* the identifier-field pattern after parse_entry read tok
IdPatNext(n, tok) ==
    IF n = 6 THEN 6
    ELSE IF \/ n \in {0, 3} /\ tok = StartTok("ent_seq", None)
            \/ n \in {1, 4} /\ tok.k = "Text"
            \/ n \in {2, 5} /\ tok = EndTok("ent_seq")
         THEN n + 1
    ELSE IF tok = StartTok("ent_seq", None) THEN 1
    ELSE 0

\* the open elements after parse_sense read tok
OpenNext(st, sh, tok) ==
    IF sh = "broken" THEN <<>>
    ELSE IF tok.k = "Start" THEN Append(st, tok.name)
    ELSE IF tok.k = "End" /\ st # <<>> /\ st[Len(st)] = tok.name THEN SubSeq(st, 1, Len(st) - 1)
    ELSE IF tok.k = "End" THEN <<>>
    ELSE st

ShapeNext(st, sh, tok) ==
    IF sh = "broken" \/ tok.k \in {"Eof", "Err"} THEN "broken"
    ELSE IF tok.k = "End" /\ ~(st # <<>> /\ st[Len(st)] = tok.name) THEN "broken"
    ELSE IF tok.k = "Start" /\ st # <<>> THEN "nested"
    ELSE sh

\* reader.read_event returns tok to the active function
Read(tok) ==
    /\ eof => tok = EofTok
    /\ eof' = (eof \/ tok.k = "Eof")
    /\ spin' = IF eof THEN 1 - spin ELSE 0
    /\ last' = tok
    /\ reader' = active
    /\ nstarts' = IF active = "get_entries" /\ tok.k = "Start" /\ tok.name = "entry"
                  THEN nstarts + 1 ELSE nstarts
    /\ nelems' = IF active = "parse_entry" /\ tok.k = "Start"
                    /\ tok.name \in {"k_ele", "r_ele", "sense"}
                 THEN nelems + 1 ELSE nelems
    /\ nstarts' <= MaxEntries
    /\ nelems' <= MaxElems

\* a step inside a direct call of parse_sense, the call not returning
InSenseCall == root = "parse_sense" /\ active = "parse_sense" /\ active' = "parse_sense"

\* the history of the tokens a function read; it starts afresh when the
\* function returns, and the history of a sense is kept for direct calls
History(tok) ==
    /\ idpat' = IF active' \in {"get_entries", "done"} THEN 0
                ELSE IF active = "parse_entry" THEN IdPatNext(idpat, tok)
                ELSE idpat
    /\ glosslangs' = IF ~InSenseCall THEN {}
                     ELSE IF tok.k = "Start" /\ tok.name = "gloss" /\ tok.lang # None
                     THEN glosslangs \cup {tok.lang[1]}
                     ELSE glosslangs
    /\ open' = IF ~InSenseCall THEN <<>>
               ELSE OpenNext(open, shape, tok)
    /\ shape' = IF ~InSenseCall THEN "flat"
                ELSE ShapeNext(open, shape, tok)
    /\ Len(open') <= MaxDepth

\* the number of items in the lists flds of the frame f
RECURSIVE Items(_, _)
Items(f, flds) ==
    IF flds = {} THEN 0
    ELSE LET fld == CHOOSE x \in flds : TRUE IN Len(f[fld]) + Items(f, flds \ {fld})

\* one iteration of the loop of get_entries
ScanStep(T) ==
    \E tok \in T :
        /\ active = "get_entries"
        /\ Read(tok)
        /\ LET o == ScanIter(entries, tok)
           IN  CASE o.t = "Cont" -> entries' = o.f /\ UNCHANGED <<active, ent, result>>
                 [] o.t = "Call" -> /\ active' = o.fn
                                    /\ ent' = EntInit
                                    /\ UNCHANGED <<entries, result>>
                 [] o.t = "Ret"  -> Apply(IF o.r.st = "Ok" THEN Ctl("done", EntInit, entries, o.r)
                                          ELSE Finish(o.r))
        /\ warned' = 0
        /\ History(tok)
        /\ UNCHANGED <<root, kele, rele, sense, arg>>

\* one iteration of the loop of parse_entry; with the record-end token, the
\* return to get_entries
EntryStep(T) ==
    \E tok \in T :
        /\ active = "parse_entry"
        /\ Read(tok)
        /\ LET o == EntryIter(ent, tok)
           IN  CASE o.t = "Cont" -> /\ ent' = o.f
                                    /\ warned' = o.warn
                                    /\ UNCHANGED <<active, entries, result>>
                 [] o.t = "Call" -> /\ active' = o.fn
                                    /\ warned' = 0
                                    /\ UNCHANGED <<ent, entries, result>>
                 [] o.t = "Ret"  -> warned' = 0 /\ Apply(AfterEntry(o.r, entries))
        /\ History(tok)
        /\ UNCHANGED <<root, kele, rele, sense, arg>>

\* one iteration of the loop of parse_k_ele; with its end token, the return
KEleStep(T) ==
    \E tok \in T :
        /\ active = "parse_k_ele"
        /\ Read(tok)
        /\ LET o == KEleIter(kele, tok)
           IN  IF o.t = "Cont"
               THEN /\ Items(o.f, {"info", "priority"}) <= MaxItems
                    /\ kele' = o.f
                    /\ warned' = o.warn
                    /\ UNCHANGED <<active, ent, entries, result>>
               ELSE /\ kele' = KEleInit
                    /\ warned' = 0
                    /\ Apply(AfterChild("parse_k_ele", o.r, ent, entries))
        /\ History(tok)
        /\ UNCHANGED <<root, rele, sense, arg>>

\* one iteration of the loop of parse_r_ele; with its end token, the return
REleStep(T) ==
    \E tok \in T :
        /\ active = "parse_r_ele"
        /\ Read(tok)
        /\ LET o == REleIter(rele, tok)
           IN  IF o.t = "Cont"
               THEN /\ Items(o.f, {"related_kanji", "info", "priority"}) <= MaxItems
                    /\ rele' = o.f
                    /\ warned' = o.warn
                    /\ UNCHANGED <<active, ent, entries, result>>
               ELSE /\ rele' = REleInit
                    /\ warned' = 0
                    /\ Apply(AfterChild("parse_r_ele", o.r, ent, entries))
        /\ History(tok)
        /\ UNCHANGED <<root, kele, sense, arg>>

SenseLists ==
    {"only_kanji", "only_readings", "part_of_speech", "cross_refs", "antonyms", "field",
     "misc", "glosses"}

\* one iteration of the loop of parse_sense; with its end token, the return
SenseStep(T) ==
    \E tok \in T :
        /\ active = "parse_sense"
        /\ Read(tok)
        /\ LET o == SenseIter(sense, tok)
           IN  IF o.t = "Cont"
               THEN /\ Items(o.f, SenseLists) <= MaxItems
                    /\ sense' = o.f
                    /\ warned' = o.warn
                    /\ UNCHANGED <<active, ent, entries, result>>
               ELSE /\ sense' = SenseInit
                    /\ warned' = 0
                    /\ Apply(AfterChild("parse_sense", o.r, ent, entries))
        /\ History(tok)
        /\ UNCHANGED <<root, kele, rele, arg>>

\* a direct call parse_cross_ref(arg, 0), as in test_parse_cross_ref
CallCrossRef ==
    /\ active = "parse_cross_ref"
    /\ result' = parse_cross_ref(arg)
    /\ active' = "done"
    /\ UNCHANGED <<root, eof, spin, last, reader, warned, entries, ent, kele, rele, sense, arg,
                   nstarts, nelems, idpat, glosslangs, open, shape>>

InitOf(fn, a) ==
    /\ root = fn
    /\ active = fn
    /\ eof = FALSE
    /\ spin = 0
    /\ last = NoTok
    /\ reader = "none"
    /\ warned = 0
    /\ entries = <<>>
    /\ ent = EntInit
    /\ kele = KEleInit
    /\ rele = REleInit
    /\ sense = SenseInit
    /\ result = Running
    /\ arg = a
    /\ nstarts = 0
    /\ nelems = 0
    /\ idpat = 0
    /\ glosslangs = {}
    /\ open = <<>>
    /\ shape = "flat"

\* main: get_entries on a document
Init == InitOf("get_entries", <<>>)

Next ==
    \/ ScanStep(DocTokens)
    \/ EntryStep(DocTokens)
    \/ KEleStep(DocTokens)
    \/ REleStep(DocTokens)
    \/ SenseStep(DocTokens)

Spec == Init /\ [][Next]_vars

\* termination is a liveness property: the program keeps running while it can
FairSpec == Spec /\ WF_vars(Next)

\* a direct call of parse_sense on the tokens after the sense Start token,
\* as in test_parse_sense
SenseTokens ==
    {StartTok(n, None) : n \in {"stagk", "stagr", "gloss", "s_inf"}}
    \cup {StartTok("gloss", Some(l)) : l \in {"eng", "fre", BadUtf8}}
    \cup {EndTok(n) : n \in {"stagk", "stagr", "gloss", "s_inf", "sense"}}
    \cup {TextTok(Str("a")), TextTok(Str("b")), TextTok(EntityText)}
    \cup {EofTok, ErrTok, OtherTok}

InitSense == InitOf("parse_sense", <<>>)

NextSense == SenseStep(SenseTokens)

SpecSense == InitSense /\ [][NextSense]_vars

\* direct calls of parse_cross_ref, as in test_parse_cross_ref
XrefChars == {"k", "K", Sep, "0", "5", "+"}

Strings(chars, n) == UNION {[1..m -> chars] : m \in 0..n}

InitXref == \E a \in Strings(XrefChars, MaxXrefLen) : InitOf("parse_cross_ref", a)

NextXref == CallCrossRef

SpecXref == InitXref /\ [][NextXref]_vars

\* a direct call of parse_entry on the tokens after the entry Start token
EntryTokens ==
    {StartTok(n, None) : n \in {"ent_seq", "r_ele", "reb", "x"}}
    \cup {EndTok(n) : n \in {"ent_seq", "r_ele", "reb", "entry"}}
    \cup {TextTok(Str("1")), TextTok(<<"0", "2">>), TextTok(<<"+", "7">>), TextTok(Str("k")),
          TextTok(EntityText)}
    \cup {EofTok, ErrTok, OtherTok}

InitEntry == InitOf("parse_entry", <<>>)

NextEntry ==
    \/ EntryStep(EntryTokens)
    \/ REleStep(EntryTokens)

SpecEntry == InitEntry /\ [][NextEntry]_vars

\* direct calls of parse_k_ele and parse_r_ele on the tokens after the
\* element's Start token; "&#32;k" is the text " k" once unescaped
SpaceRefText == <<"&", "#", "3", "2", ";", "k">>

ElemTokens ==
    {StartTok(n, None) : n \in {"keb", "ke_inf", "ke_pri", "reb", "re_nokanji", "re_restr",
                                "re_inf", "re_pri", "x"}}
    \cup {EndTok(n) : n \in {"k_ele", "r_ele", "keb"}}
    \cup {TextTok(Str("k")), TextTok(SpaceRefText), TextTok(EntityText)}
    \cup {EofTok, ErrTok, OtherTok}

InitElem == \E fn \in {"parse_k_ele", "parse_r_ele"} : InitOf(fn, <<>>)

NextElem ==
    \/ KEleStep(ElemTokens)
    \/ REleStep(ElemTokens)

SpecElem == InitElem /\ [][NextElem]_vars

\* a direct call parse_single_entity(arg, reader)
CallSingleEntity ==
    /\ active = "parse_single_entity"
    /\ result' = parse_single_entity(arg)
    /\ active' = "done"
    /\ UNCHANGED <<root, eof, spin, last, reader, warned, entries, ent, kele, rele, sense, arg,
                   nstarts, nelems, idpat, glosslangs, open, shape>>

\* the bytes of the raw tokens: the two markers and a letter
EntityChars == {"&", ";", "n"}

InitEntity == \E a \in Strings(EntityChars, MaxEntityLen) : InitOf("parse_single_entity", a)

NextEntity == CallSingleEntity

SpecEntity == InitEntity /\ [][NextEntity]_vars

----------------------------------------------------------------------------
(* Properties of parse_entry and get_entries, checked under Spec.          *)

IsRecord(r) == r.id # 0 /\ r.reading_entries # <<>>

(* C1: every Record parse_entry returns has a non-zero id and at least one  *)
(* reading; when parse_entry reads the End entry token with id = 0 or with  *)
(* no reading collected it returns an error and no Record, whatever kanji   *)
(* and senses it holds; otherwise it returns the Record of its locals.      *)
C1_EntryPostconditions ==
    [][/\ (active = "parse_entry" /\ last' = EndTok("entry")) =>
            IF ent.id = 0 \/ ent.reading_entries = <<>>
            THEN result'.st = "Err" /\ active' = "done" /\ entries' = <<>>
            ELSE /\ entries' = Append(entries, [id |-> ent.id,
                                                kanji_entries |-> ent.kanji_entries,
                                                reading_entries |-> ent.reading_entries,
                                                senses |-> ent.senses])
                 /\ result' = Running
       /\ \A i \in 1..Len(entries') : IsRecord(entries'[i])
       /\ result'.st = "Ok" => \A i \in 1..Len(result'.v) : IsRecord(result'.v[i])
      ]_vars

\* a second record with a kanji or sense element and no reading was refused
C1_Witness ==
    /\ result.st = "Err"
    /\ result.msg = "No reading entries found"
    /\ nstarts = 2
    /\ nelems = 2

(* C2: when the scanner is about to read, and when it has returned Ok, its  *)
(* collection holds one Record per Start entry token it read itself; the    *)
(* collection changes only by one Record being appended at its end, and no  *)
(* token the scanner itself reads changes it.                               *)
C2_ScannerCollects ==
    [][/\ active' = "get_entries" => Len(entries') = nstarts'
       /\ result'.st = "Ok" => result'.v = entries' /\ Len(entries') = nstarts'
       /\ result'.st \in {"Running", "Ok"} =>
            \/ entries' = entries
            \/ /\ Len(entries') = Len(entries) + 1
               /\ SubSeq(entries', 1, Len(entries)) = entries
               /\ active = "parse_entry" /\ last' = EndTok("entry")
       /\ (active = "get_entries" /\ result'.st \in {"Running", "Ok"}) => entries' = entries
      ]_vars

\* get_entries returned two different Records
C2_Witness ==
    /\ result.st = "Ok"
    /\ Len(result.v) = 2
    /\ result.v[1] # result.v[2]
    /\ nstarts = 2

\* one loop iteration of the function that reads tok
IterOf(fn, tok) ==
    CASE fn = "get_entries" -> ScanIter(entries, tok)
      [] fn = "parse_entry" -> EntryIter(ent, tok)
      [] fn = "parse_k_ele" -> KEleIter(kele, tok)
      [] fn = "parse_r_ele" -> REleIter(rele, tok)
      [] fn = "parse_sense" -> SenseIter(sense, tok)

(* C3: when the loop iteration of the function that read the token ends in  *)
(* an error (its own, the entity decoder's or the disambiguator's), the run *)
(* ends in this step with that error as the result of get_entries and no    *)
(* Records; no token is read after the run has ended.                       *)
C3_FailFast ==
    [][/\ active # "done"
       /\ LET o == IterOf(active, last')
          IN  (o.t = "Ret" /\ o.r.st = "Err") =>
                  /\ result' = o.r
                  /\ active' = "done"
                  /\ entries' = <<>>
      ]_vars

\* an element parser failed inside the second record
C3_Witness ==
    /\ result.st = "Err"
    /\ reader \in {"parse_k_ele", "parse_r_ele", "parse_sense"}
    /\ nstarts = 2
    /\ entries = <<>>

(* C4: once the reader has returned end-of-stream, get_entries eventually   *)
(* returns, whichever parser was active.                                    *)
C4_StopsAtEof == eof ~> (active = "done")

(* C5: a Start ent_seq read while the flag is set is the error "Nested      *)
(* ent_seq" and otherwise sets the flag; an End ent_seq read while the flag *)
(* is clear is the error "Mismatched ent_seq tags" and otherwise clears it; *)
(* no other token changes the flag while parse_entry runs.                  *)
C5_IdentifierProtocol ==
    [][/\ (active = "parse_entry" /\ last'.k = "Start" /\ last'.name = "ent_seq") =>
            IF ent.ent_seq
            THEN result'.st = "Err" /\ result'.msg = "Nested ent_seq" /\ active' = "done"
            ELSE active' = "parse_entry" /\ ent'.ent_seq
       /\ (active = "parse_entry" /\ last'.k = "End" /\ last'.name = "ent_seq") =>
            IF ~ent.ent_seq
            THEN result'.st = "Err" /\ result'.msg = "Mismatched ent_seq tags"
                 /\ active' = "done"
            ELSE active' = "parse_entry" /\ ~ent'.ent_seq
       /\ (/\ active \in {"parse_entry", "parse_k_ele", "parse_r_ele", "parse_sense"}
           /\ active' \in {"parse_entry", "parse_k_ele", "parse_r_ele", "parse_sense"}
           /\ ~(active = "parse_entry" /\ last'.name = "ent_seq")) =>
            ent'.ent_seq = ent.ent_seq
      ]_vars

\* an End ent_seq with no identifier field open was refused
C5_Witness ==
    /\ result.st = "Err"
    /\ result.msg = "Mismatched ent_seq tags"
    /\ reader = "parse_entry"
    /\ last = EndTok("ent_seq")

(* C6: a record in which parse_entry has read two identifier fields one     *)
(* after the other (Start ent_seq, Text, End ent_seq, twice) is refused     *)
(* when its End entry token is read.                                        *)
C6_DuplicateIdRefused ==
    [][(active = "parse_entry" /\ last' = EndTok("entry") /\ idpat = 6) => result'.st = "Err"
      ]_vars

\* the messages of the schema violations
SchemaViolations ==
    {"Nested ent_seq", "Mismatched ent_seq tags", "Failed to parse ent_seq as int",
     "ID not found", "No reading entries found", "Kanji key is empty", "Kana key is empty",
     "All glosses within a sense should use the same language", "Error parsing entity",
     "Empty cross-reference", "Error parsing cross-reference"}

(* C14: when the run ends with the error of a schema violation, the error   *)
(* message holds the byte offset of the reader.                             *)
C14_ErrorsCarryOffset ==
    (result.st = "Err" /\ result.msg \in SchemaViolations) => result.offset

\* the names of the Start tags each parser knows
KnownTags(fn) ==
    CASE fn = "parse_entry" -> {"ent_seq", "k_ele", "r_ele", "sense"}
      [] fn = "parse_k_ele" -> {"keb", "ke_inf", "ke_pri"}
      [] fn = "parse_r_ele" -> {"reb", "re_nokanji", "re_restr", "re_inf", "re_pri"}
      [] fn = "parse_sense" -> {"stagk", "stagr", "pos", "xref", "ant", "field", "misc", "gloss"}

(* C15: a Start tag that parse_entry, parse_k_ele or parse_r_ele does not   *)
(* know prints exactly one warning, is no error and leaves the locals of    *)
(* all parsers as they were; a Start tag that parse_sense does not know     *)
(* prints nothing, is no error and leaves the locals as they were.          *)
C15_UnknownTags ==
    [][(/\ active \in {"parse_entry", "parse_k_ele", "parse_r_ele", "parse_sense"}
        /\ last'.k = "Start"
        /\ last'.name \notin KnownTags(active)) =>
            /\ warned' = IF active = "parse_sense" THEN 0 ELSE 1
            /\ active' = active
            /\ result' = Running
            /\ UNCHANGED <<ent, kele, rele, sense, entries>>
      ]_vars

\* parse_r_ele warned about a tag while its cursor was on reb
C15_Witness ==
    /\ reader = "parse_r_ele"
    /\ active = "parse_r_ele"
    /\ last = StartTok("keb", None)
    /\ warned = 1
    /\ rele.elem = "Reb"
    /\ result = Running

(* C19: an element parser called inside a record that has read the End     *)
(* entry token reads no further token.                                      *)
C19_RecordRange ==
    [][~(/\ active \in {"parse_k_ele", "parse_r_ele", "parse_sense"}
         /\ reader = active
         /\ last = EndTok("entry"))
      ]_vars

(* C20: parse_entry returns no Record at an End entry token read while the  *)
(* identifier flag is set.                                                  *)
C20_FlagClearOnReturn ==
    [][(active = "parse_entry" /\ last' = EndTok("entry") /\ ent.ent_seq) =>
            /\ result'.st = "Err"
            /\ entries' = <<>>
      ]_vars

----------------------------------------------------------------------------
(* Properties of parse_sense, checked under SpecSense.                     *)

(* C7: parse_sense fails at the gloss Start token whose xml:lang differs    *)
(* from the xml:lang of an earlier gloss of the sense; when it returns a    *)
(* Sense, lang is None exactly when no gloss declared an xml:lang, and      *)
(* otherwise the one value all declaring glosses share.                     *)
C7_SenseLanguage ==
    [][active = "parse_sense" =>
        /\ (/\ last'.k = "Start" /\ last'.name = "gloss" /\ last'.lang # None
            /\ glosslangs # {} /\ last'.lang[1] \notin glosslangs) =>
                result'.st = "Err" /\ active' = "done"
        /\ result'.st = "Ok" =>
                /\ glosslangs = {} <=> result'.v.lang = None
                /\ glosslangs # {} => glosslangs = {result'.v.lang[1]}
      ]_vars

\* a Sense came back with the language two glosses declared
C7_Witness ==
    /\ root = "parse_sense"
    /\ result.st = "Ok"
    /\ result.v.lang = Some("eng")
    /\ Len(result.v.glosses) = 2
    /\ last = EndTok("sense")

\* the list of the Sense that holds the text of the element name
ListOf(name) ==
    CASE name = "gloss" -> "glosses"
      [] name = "stagk" -> "only_kanji"
      [] name = "stagr" -> "only_readings"

(* C8: in a sense fragment whose elements are closed in order and hold no   *)
(* other element, a Text token read inside a gloss, stagk or stagr element  *)
(* is appended, unescaped, at the end of the list of that kind and changes  *)
(* no list of another kind; no other token changes the three lists; the     *)
(* Sense returned holds the three lists as accumulated.                     *)
C8_SenseOrder ==
    [][(active = "parse_sense" /\ shape = "flat") =>
        /\ active' = "parse_sense" =>
             \A n \in {"gloss", "stagk", "stagr"} :
                 sense'[ListOf(n)] =
                     IF last'.k = "Text" /\ open = <<n>>
                     THEN Append(sense[ListOf(n)], Unescape(last'.text).v)
                     ELSE sense[ListOf(n)]
        /\ result'.st = "Ok" =>
             \A n \in {"gloss", "stagk", "stagr"} : result'.v[ListOf(n)] = sense[ListOf(n)]
      ]_vars

\* two different gloss texts were stored, the fragment being flat
C8_Witness ==
    /\ active = "parse_sense"
    /\ shape = "flat"
    /\ Len(sense.glosses) = 2
    /\ sense.glosses[1] # sense.glosses[2]
    /\ open = <<"gloss">>
    /\ last.k = "Text"

(* C22: while the elements of the sense are closed in order, a Text token   *)
(* read when no element is open, or when the innermost open element is not  *)
(* one of the field tags parse_sense knows, is stored in no list.           *)
C22_TextInUnknownTag ==
    [][(/\ active = "parse_sense" /\ active' = "parse_sense"
        /\ shape # "broken"
        /\ last'.k = "Text"
        /\ (open = <<>> \/ open[Len(open)] \notin KnownTags("parse_sense"))) =>
            \A fld \in SenseLists : sense'[fld] = sense[fld]
      ]_vars

----------------------------------------------------------------------------
(* Properties of parse_cross_ref, checked under SpecXref.                  *)

\* the value of a part that reads as an integer in 0..255, -1 for any other part
ByteOf(p) ==
    LET d == IF p # <<>> /\ p[1] = "+" THEN SubSeq(p, 2, Len(p)) ELSE p
    IN  IF d = <<>> \/ (\E i \in 1..Len(d) : d[i] \notin Digits) THEN -1
        ELSE IF DigitsValue(d, 0) > 255 THEN -1
        ELSE DigitsValue(d, 0)

KatakanaOnly(p) == {p[i] : i \in 1..Len(p)} \subseteq {"K"}

\* the parts of the input without the trailing 0..255 integer part
NonIndexParts(parts) ==
    IF ByteOf(parts[Len(parts)]) >= 0 THEN SubSeq(parts, 1, Len(parts) - 1) ELSE parts

IndexOf(parts) ==
    IF ByteOf(parts[Len(parts)]) >= 0 THEN Some(ByteOf(parts[Len(parts)])) ELSE None

Returned == root = "parse_cross_ref" /\ active = "done"

(* C9: for an input of two or more parts whose first part is not            *)
(* katakana-only, parse_cross_ref fails when more than two parts remain     *)
(* without the trailing 0..255 integer part; otherwise the word is the      *)
(* first part, the reading the second remaining part if there is one, and   *)
(* the sense index the trailing integer if there is one.                    *)
C9_XrefFields ==
    Returned =>
        LET parts == Split(arg, Sep)
            rest  == NonIndexParts(parts)
        IN  (Len(parts) >= 2 /\ ~KatakanaOnly(parts[1])) =>
                IF Len(rest) > 2 THEN result.st = "Err"
                ELSE /\ result.st = "Ok"
                     /\ result.v.kanji_or_reading = parts[1]
                     /\ result.v.reading = IF Len(rest) = 2 THEN Some(rest[2]) ELSE None
                     /\ result.v.sense_index = IndexOf(parts)

\* a word, a reading and a sense index came back
C9_Witness ==
    /\ Returned
    /\ result.st = "Ok"
    /\ ~KatakanaOnly(Split(arg, Sep)[1])
    /\ result.v.reading # None
    /\ result.v.sense_index # None

(* C10: for an input of two or more parts whose first part is               *)
(* katakana-only, parse_cross_ref succeeds with no reading; the word is the *)
(* whole input when the last part is no 0..255 integer, and otherwise the   *)
(* input without its last separator and last part, that part read as an     *)
(* integer being the sense index.                                           *)
C10_XrefKatakana ==
    Returned =>
        LET parts == Split(arg, Sep)
            n     == Len(parts)
        IN  (n >= 2 /\ KatakanaOnly(parts[1])) =>
                /\ result.st = "Ok"
                /\ result.v.reading = None
                /\ result.v.sense_index = IndexOf(parts)
                /\ arg = IF ByteOf(parts[n]) >= 0
                         THEN result.v.kanji_or_reading \o <<Sep>> \o parts[n]
                         ELSE result.v.kanji_or_reading

\* a katakana compound of two parts came back with a sense index
C10_Witness ==
    /\ Returned
    /\ result.st = "Ok"
    /\ arg = <<"K", Sep, "K", Sep, "5">>
    /\ result.v.kanji_or_reading = <<"K", Sep, "K">>
    /\ result.v.sense_index = Some(5)

(* C11: parse_cross_ref fails on the empty input; for a non-empty input     *)
(* without a separator it returns the whole input as the word, with no      *)
(* reading and no sense index, also when the input reads as an integer.     *)
C11_XrefBaseCases ==
    Returned =>
        /\ arg = <<>> => result.st = "Err"
        /\ (arg # <<>> /\ \A i \in 1..Len(arg) : arg[i] # Sep) =>
                /\ result.st = "Ok"
                /\ result.v.kanji_or_reading = arg
                /\ result.v.reading = None
                /\ result.v.sense_index = None

\* an input that is itself an integer came back as the word
C11_Witness ==
    /\ Returned
    /\ arg = <<"5">>
    /\ result.st = "Ok"
    /\ result.v.kanji_or_reading = <<"5">>
    /\ result.v.sense_index = None

(* C18: a sense index parse_cross_ref returns is the last part of the       *)
(* input read as an integer, and lies in 1..255.                            *)
C18_SenseIndexOneBased ==
    (Returned /\ result.st = "Ok" /\ result.v.sense_index # None) =>
        LET parts == Split(arg, Sep)
        IN  /\ result.v.sense_index[1] = ByteOf(parts[Len(parts)])
            /\ result.v.sense_index[1] >= 1
            /\ result.v.sense_index[1] <= 255

(* C21: the word of a CrossReference parse_cross_ref returns for a          *)
(* non-empty input is not empty.                                            *)
C21_TargetNotEmpty ==
    (Returned /\ arg # <<>> /\ result.st = "Ok") => result.v.kanji_or_reading # <<>>

----------------------------------------------------------------------------
(* Properties of parse_single_entity, checked under SpecEntity.            *)

ReturnedEntity == root = "parse_single_entity" /\ active = "done"

(* C12: for every raw token, the empty token and the tokens "&" and ";"     *)
(* included, parse_single_entity returns an error when the token does not   *)
(* begin with "&", does not end with ";", or holds a further "&" or ";"     *)
(* between its first and last character, and otherwise returns the token    *)
(* without its first and last character; it never panics.                   *)
C12_EntityDecoder ==
    ReturnedEntity =>
        LET n == Len(arg)
        IN  /\ result.st # "Panic"
            /\ IF \/ n = 0
                  \/ arg[1] # "&"
                  \/ arg[n] # ";"
                  \/ \E i \in 2..(n - 1) : arg[i] \in {"&", ";"}
               THEN result.st = "Err"
               ELSE result.st = "Ok" /\ result.v = [i \in 1..(n - 2) |-> arg[i + 1]]

\* the token "&" alone was refused, and no index was out of range
C12_Witness ==
    /\ ReturnedEntity
    /\ arg = <<"&">>
    /\ result.st = "Err"

----------------------------------------------------------------------------
(* Properties of parse_entry, checked under SpecEntry.                     *)

\* the value of a text that reads as an unsigned integer, -1 for any other text
NumberOf(p) ==
    LET d == IF p # <<>> /\ p[1] = "+" THEN SubSeq(p, 2, Len(p)) ELSE p
    IN  IF d = <<>> \/ (\E i \in 1..Len(d) : d[i] \notin Digits) THEN -1
        ELSE DigitsValue(d, 0)

Parsers == {"parse_entry", "parse_k_ele", "parse_r_ele", "parse_sense"}

(* C17: a Text token parse_entry reads while the flag is set makes the id   *)
(* the integer the text reads as, and is an error when it reads as none; a  *)
(* Text token parse_entry reads while the flag is clear changes nothing;    *)
(* no other token, whoever reads it, changes the id while the record is     *)
(* being parsed.                                                            *)
C17_IdOnlyFromText ==
    [][/\ (active = "parse_entry" /\ last'.k = "Text" /\ ent.ent_seq) =>
            IF NumberOf(last'.text) >= 0
            THEN active' = "parse_entry" /\ ent'.id = NumberOf(last'.text)
            ELSE result'.st = "Err" /\ active' = "done"
       /\ (active = "parse_entry" /\ last'.k = "Text" /\ ~ent.ent_seq) =>
            active' = "parse_entry" /\ ent' = ent
       /\ (/\ active \in Parsers /\ active' \in Parsers
           /\ ~(active = "parse_entry" /\ last'.k = "Text")) => ent'.id = ent.id
      ]_vars

\* a second identifier text replaced the id, a reading being already stored
C17_Witness ==
    /\ active = "parse_entry"
    /\ reader = "parse_entry"
    /\ last = TextTok(<<"0", "2">>)
    /\ ent.ent_seq
    /\ ent.id = 2
    /\ ent.reading_entries # <<>>

----------------------------------------------------------------------------
(* Properties of parse_k_ele and parse_r_ele, checked under SpecElem.      *)

(* C13: when parse_k_ele reads End k_ele, or parse_r_ele End r_ele, with a  *)
(* primary string (kanji, kana) that is empty or differs from its trim, the *)
(* parser returns an error to its caller.                                   *)
C13_PrimaryStringError ==
    [][/\ (/\ active = "parse_k_ele" /\ last' = EndTok("k_ele")
           /\ (kele.kanji = <<>> \/ Trim(kele.kanji) # kele.kanji)) => result'.st = "Err"
       /\ (/\ active = "parse_r_ele" /\ last' = EndTok("r_ele")
           /\ (rele.kana = <<>> \/ Trim(rele.kana) # rele.kana)) => result'.st = "Err"
      ]_vars

\* the list or string a cursor value names
FieldOf(elem) ==
    CASE elem = "Keb"     -> "kanji"
      [] elem = "KeInf"   -> "info"
      [] elem = "KePri"   -> "priority"
      [] elem = "Reb"     -> "kana"
      [] elem = "ReRestr" -> "related_kanji"
      [] elem = "ReInf"   -> "info"
      [] elem = "RePri"   -> "priority"
      [] OTHER            -> "none"

\* the cursor discipline of one parser: fn its name, own its end tag, f and
\* g its locals before and after the step, flds its fields
CursorStep(fn, own, f, g, flds) ==
    active = fn =>
        /\ (last'.k = "End" /\ last'.name # own) => active' = fn /\ g.elem = "None"
        /\ (last'.k = "Text" /\ active' = fn) =>
                \A fld \in flds : g[fld] # f[fld] => fld = FieldOf(f.elem)
        /\ (last'.k = "Text" /\ f.elem = "None") =>
                /\ warned' = 1
                /\ active' = fn
                /\ result' = Running
                /\ g = f

(* C16: in parse_k_ele and parse_r_ele the cursor is None after every End   *)
(* token other than the element's own; a Text token changes no field but    *)
(* the one the cursor names; a Text token read while the cursor is None     *)
(* prints one warning, is no error and changes nothing.                     *)
C16_CursorDiscipline ==
    [][/\ CursorStep("parse_k_ele", "k_ele", kele, kele', {"kanji", "info", "priority"})
       /\ CursorStep("parse_r_ele", "r_ele", rele, rele',
                     {"kana", "related_kanji", "info", "priority"})
      ]_vars

\* a text after the End token of the reb element was warned about, the kana kept
C16_Witness ==
    /\ active = "parse_r_ele"
    /\ last.k = "Text"
    /\ warned = 1
    /\ rele.elem = "None"
    /\ rele.kana = <<"k">>
    /\ rele.priority # <<>>

====
